---------------------------- MODULE Spec2Model ----------------------------
(***************************************************************************)
(* Scene lifecycle and synchronisation of the WebGPU music visualiser.     *)
(*                                                                         *)
(* Two windows are modelled, each under its own specification:             *)
(*   Spec       the primary window: main.js (startVisualizer, init,        *)
(*              switchSceneWithGUI), core/bootstrap.js (initVisualization, *)
(*              animate), core/renderer.js (animation loop, post           *)
(*              processing) and scenes/registry.js (initScene,             *)
(*              updateScene) with the skinning scene module;               *)
(*   SpecSpout  the secondary (Spout output) window: spout-renderer.js     *)
(*              (init, animate, updateSettings, updateAudio, switchScene). *)
(*                                                                         *)
(* One action is one macrotask of the JavaScript event loop: a handler     *)
(* runs from its entry, through every await that resolves in a microtask,  *)
(* to its first real suspension (audio permission, GPU device request,     *)
(* model download) or to its end.                                          *)
(***************************************************************************)
EXTENDS Integers, Sequences, FiniteSets, TLC

(***************************************************************************)
(* Bounds of the model.                                                    *)
(***************************************************************************)
\* user requests (start, scene switch) made on the primary window
MaxRequests == 4
\* messages (settings, audio, scene) delivered to the secondary window
MaxMessages == 2
\* messages the primary window has sent and the main process has not handled
MaxWire == 2
\* output windows the main process creates
MaxWindows == 2
\* the longest spectrum (dataArray.length)
MaxLen == 25
\* calls of spout:enable
MaxEnables == 2
\* actions of the user on the Spout controls and the window
MaxActions == 4

(***************************************************************************)
(* Values.                                                                 *)
(***************************************************************************)
NULL == "null"
UNDEFINED == "undefined"
\* the null of a variable holding a scene object; scene objects are 1, 2, ...
NoScene == 0

\* scenes/registry.js: the keys of sceneRegistry
Scenes == {"particles", "points", "skinning"}
\* a scene id that is no key of the registry
Bogus == "bogus"
RequestIds == Scenes \cup {Bogus}

VARIABLES
    \* --- environment of the primary window
    linked,               \* the module graph of the primary window linked
    webgpu,               \* WebGPU.isAvailable()
    urlScene,             \* the ?scene= URL parameter, 'particles' when absent
    \* --- main.js
    isStarting,
    audioInitialized,
    mainSceneType,        \* main.js: currentSceneType
    app,                  \* main.js: app, the handle of initVisualization (its scene)
    selector,             \* the scene selector dropdown exists
    \* --- core/bootstrap.js, core/renderer.js
    appInit,              \* appState.isInitialized
    rendererObj,          \* renderer.js: renderer !== null
    rendererInit,         \* renderer.js: isInitialized
    loop,                 \* an animation loop callback is installed
    ppScene,              \* the scene the post-processing pass renders
    \* --- scenes/registry.js
    currentSceneType,
    currentScene,
    currentSceneCleanup,
    \* --- scenes/skinning.js
    skin,                 \* skinningScene: scene, loaded, currentModelPath in sync
    \* --- the scene objects created so far, by id (instrumentation)
    scenes,
    \* --- asynchronous calls suspended at an await
    tasks,
    nreq,                 \* requests made so far
    ev,                   \* the last handler that ran (instrumentation)
    \* --- the secondary window
    spout,                \* spout-renderer.js: the module's state, as a record
    nmsg,                 \* messages delivered so far
    frame,                \* settings, scene: delivered since the last tick
    lastScene,            \* the last scene id delivered (instrumentation)
    \* --- settings/utils.js: a settings store and the calls made on it
    codec,
    \* --- spout/sync.js, electron/main.js: the channel between the windows
    sync,
    \* --- audio/capture.js, audio/uniforms.js: the analyser and its outputs
    capture,
    \* --- calculateAudioMagnitude: its arguments and its result
    reactive,
    \* --- animate() of either window: what one call does, in order
    driver,
    \* --- electron/main.js with the Spout controls and the output window
    electron

primaryVars == << linked, webgpu, urlScene, isStarting, audioInitialized, mainSceneType,
                  app, selector, appInit, rendererObj, rendererInit, loop,
                  ppScene, currentSceneType, currentScene, currentSceneCleanup,
                  skin, scenes, tasks, nreq, ev >>

spoutVars == << spout, nmsg, frame, lastScene >>

\* the variables of the other specifications
restVars == << codec, sync, capture, reactive, driver, electron >>

vars == << primaryVars, spoutVars, restVars >>

\* The state of the primary window as one record, so that a handler is an
\* operator from state to state.
St == [linked |-> linked, webgpu |-> webgpu, urlScene |-> urlScene, isStarting |-> isStarting,
       audioInitialized |-> audioInitialized, mainSceneType |-> mainSceneType,
       app |-> app, selector |-> selector, appInit |-> appInit,
       rendererObj |-> rendererObj, rendererInit |-> rendererInit,
       loop |-> loop, ppScene |-> ppScene,
       currentSceneType |-> currentSceneType, currentScene |-> currentScene,
       currentSceneCleanup |-> currentSceneCleanup, skin |-> skin,
       scenes |-> scenes, tasks |-> tasks, nreq |-> nreq, ev |-> ev]

Become(r) ==
    /\ linked' = r.linked
    /\ webgpu' = r.webgpu
    /\ urlScene' = r.urlScene
    /\ isStarting' = r.isStarting
    /\ audioInitialized' = r.audioInitialized
    /\ mainSceneType' = r.mainSceneType
    /\ app' = r.app
    /\ selector' = r.selector
    /\ appInit' = r.appInit
    /\ rendererObj' = r.rendererObj
    /\ rendererInit' = r.rendererInit
    /\ loop' = r.loop
    /\ ppScene' = r.ppScene
    /\ currentSceneType' = r.currentSceneType
    /\ currentScene' = r.currentScene
    /\ currentSceneCleanup' = r.currentSceneCleanup
    /\ skin' = r.skin
    /\ scenes' = r.scenes
    /\ tasks' = r.tasks
    /\ nreq' = r.nreq
    /\ ev' = r.ev
    /\ UNCHANGED << spoutVars, restVars >>

\* The record of the last handler: op the handler, type the scene id it was
\* given, err the error it signalled to its caller ("none" when it returned
\* normally), upd the variant whose update() a tick invoked, cleanup what the
\* cleanup block of initScene did ("none" when initScene did not get there),
\* prev the scene installed in the registry when initScene was entered, began
\* whether a variant's init() was called.
Ev(op, type, err, upd, cleanup, prev, began) ==
    [op |-> op, type |-> type, err |-> err, upd |-> upd, cleanup |-> cleanup,
     prev |-> prev, began |-> began]

NoEv == Ev("none", NULL, "none", NULL, "none", NoScene, FALSE)

(***************************************************************************)
(* scenes/registry.js                                                      *)
(***************************************************************************)

\* sceneRegistry[t].cleanup. registry.js imports cleanupParticlesScene and
\* cleanupPointsScene, which particles.js and points.js do not export; only
\* skinning.js exports its cleanup. A build either refuses to link the
\* modules (linked = FALSE: no handler of the primary window ever runs) or
\* binds the two names to undefined (linked = TRUE).
RegistryCleanup(t) == IF t = "skinning" THEN "skinning" ELSE UNDEFINED

\* a new scene object of variant t
\* (cleanups, disposed, installed are instrumentation: the times a cleanup
\* function released it, whether disposeScene ran on it, whether an init
\* that produced it resolved and the registry installed it)
NewScene(t) == [variant |-> t, cleanups |-> 0, disposed |-> FALSE,
                installed |-> FALSE]

\* utils/disposal.js disposeScene(scene)
DisposeScene(sc, id) == [sc EXCEPT ![id].disposed = TRUE]

\* a cleanupSkinningScene that released the scene but kept the reference
CleanupSkinningSceneKeepingScene(m) ==
    IF m.skin.scene = NoScene
    THEN m
    ELSE [m EXCEPT !.scenes[m.skin.scene].cleanups = @ + 1,
                   !.skin.loaded = FALSE]

\* scenes/skinning.js cleanupSkinningScene(): a no-op without a scene, else
\* releases the scene held by the module and clears the reference
CleanupSkinningScene(m) ==
    IF m.skin.scene = NoScene
    THEN m
    ELSE [m EXCEPT !.scenes[m.skin.scene].cleanups = @ + 1,
                   !.skin.scene = NoScene,
                   !.skin.loaded = FALSE]

\* registry.js initScene, "Cleanup previous scene before switching"
CleanupPrevious(m) ==
    IF m.currentScene # NoScene /\ m.currentSceneCleanup \notin {NULL, UNDEFINED}
    THEN LET c == CleanupSkinningScene(m)
         IN  [c EXCEPT !.scenes = DisposeScene(c.scenes, m.currentScene),
                       !.currentScene = NoScene,
                       !.currentSceneCleanup = NULL]
    ELSE m

\* what the cleanup block did, for the instrumentation
CleanupOutcome(m) ==
    IF m.currentScene = NoScene THEN "empty"
    ELSE IF m.currentSceneCleanup \in {NULL, UNDEFINED} THEN "nocleanup"
    ELSE "ran"

(***************************************************************************)
(* core/renderer.js                                                        *)
(***************************************************************************)

\* a setAnimationLoop that ignores a null callback: the loop keeps running
SetAnimationLoopStartOnly(s, on) ==
    IF s.rendererObj /\ on THEN [s EXCEPT !.loop = TRUE] ELSE s

\* setAnimationLoop(callback): nothing without a renderer
SetAnimationLoop(s, on) == IF s.rendererObj THEN [s EXCEPT !.loop = on] ELSE s

\* bootstrap.js: the cleanup() of the handle initVisualization returns
AppCleanup(s) == [SetAnimationLoop(s, FALSE) EXCEPT !.appInit = FALSE]

\* setupPostProcessing(scene, bloomConfig)
SetupPostProcessing(s, scene) == [s EXCEPT !.ppScene = scene]

(***************************************************************************)
(* The callers of initVisualization in main.js: what each does once the    *)
(* promise settles.                                                        *)
(***************************************************************************)

\* init(): app = await initVisualization(...), the GUI, createSceneSelector;
\* then startVisualizer's finally. switchSceneWithGUI(): app = await ..., GUI.
Fulfilled(s, kind, scene) ==
    IF kind = "start"
    THEN [s EXCEPT !.app = scene, !.selector = TRUE, !.isStarting = FALSE]
    ELSE [s EXCEPT !.app = scene]

\* init() shows the error and rethrows, startVisualizer catches it and its
\* finally resets the flag; switchSceneWithGUI lets the rejection through.
Rejected(s, kind) ==
    IF kind = "start" THEN [s EXCEPT !.isStarting = FALSE] ELSE s

(***************************************************************************)
(* scenes/registry.js initScene and core/bootstrap.js initVisualization    *)
(***************************************************************************)

\* initVisualization after "const scene = await initScene(...)", with the
\* two assignments that end initScene: post-processing, the animation loop,
\* the handle returned to the caller.
SceneReady(s, kind, t, scene) ==
    LET s1 == [s EXCEPT !.currentScene = scene,
                        !.currentSceneCleanup = RegistryCleanup(t),
                        !.scenes[scene].installed = TRUE]
        s2 == SetupPostProcessing(s1, scene)
        s3 == SetAnimationLoop(s2, TRUE)
    IN  Fulfilled(s3, kind, scene)

\* scenes/skinning.js initSkinningScene, to its return or to the download
\* (loadModelFromURL, through reloadCurrentModel when the module is loaded
\* and skinningScene.currentModelPath was never set)
InitSkinningScene(s, kind, id, e) ==
    IF s.skin.loaded /\ s.skin.pathSynced
    THEN [SceneReady(s, kind, "skinning", s.skin.scene) EXCEPT !.ev = e]
    ELSE LET reload == s.skin.loaded
             fresh == s.skin.scene = NoScene
             scene == IF fresh THEN Len(s.scenes) + 1 ELSE s.skin.scene
             s1 == IF reload
                   THEN [s EXCEPT !.skin.loaded = FALSE, !.skin.pathSynced = TRUE]
                   ELSE s
             s2 == IF fresh
                   THEN [s1 EXCEPT !.scenes = Append(@, NewScene("skinning"))]
                   ELSE s1
         IN  [s2 EXCEPT !.tasks = @ \cup {[id |-> id, kind |-> kind,
                                           type |-> "skinning",
                                           stage |-> "scene", scene |-> scene]},
                       !.ev = e]

\* registry.js initScene(sceneType, ...) as called by initVisualization
InitScene(s, kind, t, id, op) ==
    IF t \notin Scenes
    THEN [Rejected(s, kind) EXCEPT
            !.ev = Ev(op, t, "unknown", NULL, "none", s.currentScene, FALSE)]
    ELSE LET c == [CleanupPrevious(s) EXCEPT !.currentSceneType = t]
             e == Ev(op, t, "none", NULL, CleanupOutcome(s), s.currentScene, TRUE)
         IN  IF t = "skinning"
             THEN InitSkinningScene(c, kind, id, e)
             ELSE LET n == Len(c.scenes) + 1
                      c1 == [c EXCEPT !.scenes = Append(@, NewScene(t))]
                  IN  [SceneReady(c1, kind, t, n) EXCEPT !.ev = e]

\* bootstrap.js initVisualization(options), to its first real suspension
InitVisualization(s, kind, t, id, op) ==
    IF ~s.webgpu
    THEN [Rejected(s, kind) EXCEPT
            !.ev = Ev(op, t, "nowebgpu", NULL, "none", s.currentScene, FALSE)]
    ELSE IF ~s.appInit
    THEN IF s.rendererInit
         THEN InitScene([s EXCEPT !.appInit = TRUE], kind, t, id, op)
         ELSE [s EXCEPT !.rendererObj = TRUE,
                        !.tasks = @ \cup {[id |-> id, kind |-> kind, type |-> t,
                                           stage |-> "renderer",
                                           scene |-> NoScene]},
                        !.ev = Ev(op, t, "none", NULL, "none", s.currentScene, FALSE)]
    ELSE InitScene(s, kind, t, id, op)

(***************************************************************************)
(* main.js                                                                 *)
(***************************************************************************)

\* a startVisualizer without the isStarting test
StartVisualizerUnguarded(s) ==
    LET s0 == [s EXCEPT !.nreq = @ + 1]
    IN  IF s.audioInitialized
        THEN [s0 EXCEPT !.ev = Ev("start", NULL, "started", NULL, "none", s.currentScene, FALSE)]
        ELSE [s0 EXCEPT !.isStarting = TRUE,
                        !.tasks = @ \cup {[id |-> s0.nreq, kind |-> "start",
                                           type |-> s.urlScene, stage |-> "audio",
                                           scene |-> NoScene]},
                        !.ev = Ev("start", NULL, "none", NULL, "none", s.currentScene, FALSE)]

\* startVisualizer(), to "await initAudio()"
StartVisualizerBody(s) ==
    LET s0 == [s EXCEPT !.nreq = @ + 1]
    IN  IF s.isStarting
        THEN [s0 EXCEPT !.ev = Ev("start", NULL, "busy", NULL, "none", s.currentScene, FALSE)]
        ELSE IF s.audioInitialized
        THEN [s0 EXCEPT !.ev = Ev("start", NULL, "started", NULL, "none", s.currentScene, FALSE)]
        ELSE [s0 EXCEPT !.isStarting = TRUE,
                        !.tasks = @ \cup {[id |-> s0.nreq, kind |-> "start",
                                           type |-> s.urlScene, stage |-> "audio",
                                           scene |-> NoScene]},
                        !.ev = Ev("start", NULL, "none", NULL, "none", s.currentScene, FALSE)]

\* startVisualizer() after initAudio() settled (ok: it resolved), into
\* init(sceneParam)
AudioSettledBody(s, task, ok) ==
    LET s1 == [s EXCEPT !.tasks = @ \ {task},
                        !.audioInitialized = IF ok THEN TRUE ELSE @,
                        !.mainSceneType = task.type]
    IN  InitVisualization(s1, "start", task.type, task.id, "audio")

\* initVisualization after "await initRenderer(...)" of a first renderer
RendererReadyBody(s, task) ==
    LET s1 == [s EXCEPT !.tasks = @ \ {task},
                        !.rendererInit = TRUE,
                        !.appInit = TRUE]
    IN  InitScene(s1, task.kind, task.type, task.id, "renderer")

\* the model download of initSkinningScene succeeded
SceneResolvedBody(s, task) ==
    LET s1 == [s EXCEPT !.tasks = @ \ {task},
                        !.skin.scene = task.scene,
                        !.skin.loaded = TRUE]
    IN  [SceneReady(s1, task.kind, "skinning", task.scene) EXCEPT
            !.ev = Ev("resolve", "skinning", "none", NULL, "none", s.currentScene, FALSE)]

\* the model download failed: initScene, initVisualization reject
SceneRejectedBody(s, task) ==
    [Rejected([s EXCEPT !.tasks = @ \ {task}], task.kind) EXCEPT
        !.ev = Ev("reject", "skinning", "rejected", NULL, "none", s.currentScene, FALSE)]

\* switchSceneWithGUI(sceneType)
SwitchSceneWithGUIBody(s, t) ==
    LET s0 == [s EXCEPT !.nreq = @ + 1]
    IN  IF t = s.mainSceneType
        THEN [s0 EXCEPT !.ev = Ev("switch", t, "same", NULL, "none", s.currentScene, FALSE)]
        ELSE LET s1 == [s0 EXCEPT !.mainSceneType = t]
                 s2 == SetAnimationLoop(s1, FALSE)            \* stopAnimation()
                 s3 == IF s2.app # NoScene                     \* app.cleanup()
                       THEN AppCleanup(s2)
                       ELSE s2
             IN  InitVisualization(s3, "switch", t, s0.nreq, "switch")

\* bootstrap.js animate(): updateScene, then render
AnimateBody(s) ==
    LET upd == IF s.currentSceneType \in Scenes THEN s.currentSceneType ELSE NULL
    IN  [s EXCEPT !.ev = Ev("tick", NULL, "none", upd, "none", s.currentScene, FALSE)]

(***************************************************************************)
(* The secondary window: spout-renderer.js                                 *)
(***************************************************************************)

\* The keys of the module's settings object that the model keeps, and a key
\* the primary window sends that the object does not have. Numbers are in
\* hundredths (bloomStrength 0.75 is 75); a boolean is 1 or 0.
SettingKeys == {"bassSensitivity", "bloomStrength", "autoRotate"}
SnapKeys == SettingKeys \cup {"greenScreen"}

\* const settings = {...}
DefaultSettings ==
    [key \in SettingKeys |->
        CASE key = "bassSensitivity" -> 150
          [] key = "bloomStrength" -> 75
          [] key = "autoRotate" -> 1]

\* settings.bassBloom, a key the model does not vary
BassBloom == 200

\* the other value a message may carry for a key
OtherValue(key) ==
    CASE key = "bassSensitivity" -> 200
      [] key = "bloomStrength" -> 100
      [] key = "autoRotate" -> 0
      [] key = "greenScreen" -> 1
      [] OTHER -> 1

\* the value a key has by default in the primary window
DefaultValue(key) == IF key \in SettingKeys THEN DefaultSettings[key] ELSE 0

\* a settings message: an object with the keys D, each at one of its two
\* values (a null message is handled as the object without keys is: nothing
\* is assigned)
SnapshotsOver(D) ==
    {[key \in D |-> IF key \in H THEN OtherValue(key) ELSE DefaultValue(key)] :
        H \in SUBSET D}
Snapshots == UNION {SnapshotsOver(D) : D \in SUBSET SnapKeys}

\* audio messages, each field a sequence: << v >> when the message carries
\* the field, << >> when it does not. Silence, a bass hit, a message without
\* its bass field.
AudioSnapshots ==
    { [bass |-> << 0 >>, mid |-> << 0 >>, high |-> << 0 >>, overall |-> << 0 >>],
      [bass |-> << 100 >>, mid |-> << 0 >>, high |-> << 100 >>, overall |-> << 100 >>],
      [bass |-> << >>, mid |-> << 100 >>, high |-> << 0 >>, overall |-> << 100 >>] }

\* audioData.x || 0
OrZero(field) == IF field = << >> THEN 0 ELSE field[1]

\* the module before init('particles') runs
SpoutFresh(w) ==
    [webgpu |-> w,
     currentScene |-> NULL,
     isInitialized |-> FALSE,
     renderer |-> FALSE,            \* renderer is assigned
     loop |-> FALSE,                \* renderer.setAnimationLoop(animate) is in force
     controls |-> [exists |-> FALSE, autoRotate |-> 0],
     bloomPass |-> [exists |-> FALSE, strength |-> 0],
     ppScene |-> NULL,              \* the variant of the scene the pass renders
     settings |-> DefaultSettings,
     audio |-> [bass |-> 0, mid |-> 0, high |-> 0, overall |-> 0],
     particlesScene |-> FALSE,      \* particlesScene.scene is set
     pointsScene |-> FALSE,         \* pointsScene.scene is set
     skinningScene |-> [scene |-> FALSE, mixer |-> FALSE, loaded |-> FALSE],
     tasks |-> {},                  \* calls of init suspended at an await
     updated |-> NULL,              \* the variant the last tick updated
     failed |-> FALSE]              \* some call of init threw or rejected

\* init(), from "const scenePass = pass(scene, camera)" to its end
SpoutSceneDone(s, t) ==
    [s EXCEPT !.bloomPass = [exists |-> TRUE, strength |-> s.settings["bloomStrength"]],
              !.ppScene = IF t \in Scenes THEN t ELSE UNDEFINED,
              !.currentScene = t,
              !.loop = TRUE]

\* init(), from the camera reset: the variant's init function, to the end of
\* init or to the model download of initSkinningScene
SpoutInitScene(s, t, id) ==
    CASE t = "particles" -> SpoutSceneDone([s EXCEPT !.particlesScene = TRUE], t)
      [] t = "points" -> SpoutSceneDone([s EXCEPT !.pointsScene = TRUE], t)
      [] t = "skinning" ->
            [s EXCEPT !.tasks = @ \cup {[id |-> id, type |-> t, stage |-> "scene"]}]
      [] OTHER -> SpoutSceneDone(s, t)

\* an identifier for a call that suspends, later than those suspended
NextTaskId(ts) ==
    IF ts = {} THEN 1
    ELSE (CHOOSE i \in {task.id : task \in ts} :
             \A task \in ts : task.id <= i) + 1

\* init(sceneType), to its first real suspension
SpoutInit(s, t) ==
    LET id == NextTaskId(s.tasks)
    IN  IF ~s.webgpu
        THEN [s EXCEPT !.failed = TRUE]
        ELSE IF ~s.isInitialized
        THEN [s EXCEPT !.renderer = TRUE,
                       !.tasks = @ \cup {[id |-> id, type |-> t, stage |-> "renderer"]}]
        ELSE SpoutInitScene(s, t, id)

\* init() after "await renderer.init()"
SpoutRendererReady(s, task) ==
    LET s1 == [s EXCEPT !.tasks = @ \ {task},
                        !.controls = [exists |-> TRUE,
                                      autoRotate |-> s.settings["autoRotate"]],
                        !.isInitialized = TRUE]
    IN  SpoutInitScene(s1, task.type, task.id)

\* the model download of initSkinningScene succeeded
SpoutSceneResolved(s, task) ==
    LET s1 == [s EXCEPT !.tasks = @ \ {task},
                        !.skinningScene = [scene |-> TRUE, mixer |-> TRUE,
                                           loaded |-> TRUE]]
    IN  SpoutSceneDone(s1, "skinning")

\* the model download failed: init rejects
SpoutSceneRejected(s, task) ==
    [s EXCEPT !.tasks = @ \ {task}, !.failed = TRUE]

\* an animate that kept the bloom and controls parameters it was built with
SpoutAnimateStale(s) ==
    [s EXCEPT !.updated =
                 IF s.currentScene = "skinning" /\ ~s.skinningScene.mixer
                 THEN NULL
                 ELSE IF s.currentScene \in Scenes THEN s.currentScene ELSE NULL]

\* animate()
SpoutAnimate(s) ==
    [s EXCEPT !.bloomPass.strength =
                 s.settings["bloomStrength"]
                    + (s.audio.bass * BassBloom) \div 100,
              !.controls.autoRotate = s.settings["autoRotate"],
              !.updated =
                 IF s.currentScene = "skinning" /\ ~s.skinningScene.mixer
                 THEN NULL
                 ELSE IF s.currentScene \in Scenes THEN s.currentScene ELSE NULL]

\* the loop of updateSettings without its hasOwnProperty test
RECURSIVE AssignAnyKeys(_, _, _)
AssignAnyKeys(settings, newSettings, keys) ==
    IF keys = {}
    THEN settings
    ELSE LET key == CHOOSE k \in keys : TRUE
             next == [k \in DOMAIN settings \cup {key} |->
                         IF k = key THEN newSettings[key] ELSE settings[k]]
         IN  AssignAnyKeys(next, newSettings, keys \ {key})

\* for (const key in newSettings) if (settings.hasOwnProperty(key)) ...
RECURSIVE AssignKeys(_, _, _)
AssignKeys(settings, newSettings, keys) ==
    IF keys = {}
    THEN settings
    ELSE LET key == CHOOSE k \in keys : TRUE
             next == IF key \in DOMAIN settings
                     THEN [settings EXCEPT ![key] = newSettings[key]]
                     ELSE settings
         IN  AssignKeys(next, newSettings, keys \ {key})

\* spout/sync.js updateSettingsFromMain(settings, newSettings), on the
\* values of the local store
UpdateSettingsFromMain(settings, newSettings) ==
    AssignKeys(settings, newSettings, DOMAIN newSettings)

\* updateSettings(newSettings)
SpoutUpdateSettings(s, newSettings) ==
    [s EXCEPT !.settings = AssignKeys(@, newSettings, DOMAIN newSettings)]

\* updateAudio(audioData)
SpoutUpdateAudio(s, audioData) ==
    [s EXCEPT !.audio = [bass |-> OrZero(audioData.bass),
                         mid |-> OrZero(audioData.mid),
                         high |-> OrZero(audioData.high),
                         overall |-> OrZero(audioData.overall)]]

\* switchScene(sceneType)
SpoutSwitchScene(s, t) ==
    LET s1 == IF s.renderer THEN [s EXCEPT !.loop = FALSE] ELSE s
        s2 == [s1 EXCEPT !.skinningScene = [scene |-> FALSE, mixer |-> FALSE,
                                            loaded |-> FALSE],
                         !.particlesScene = FALSE,
                         !.pointsScene = FALSE]
    IN  SpoutInit(s2, t)

\* the module once evaluated: init('particles') is suspended or has thrown
SpoutStarted(w) == SpoutInit(SpoutFresh(w), "particles")

(***************************************************************************)
(* settings/utils.js: the settings store of the primary window             *)
(***************************************************************************)

\* The keys of the store that the model keeps, and a key no store has.
StoreKeys == SettingKeys
UnknownKey == "unknownKey"

\* the plain objects of values handed to deserializeSettings
ValueObjects == UNION {SnapshotsOver(D) : D \in SUBSET (StoreKeys \cup {UnknownKey})}

\* a store whose keys in H are at their other value: createSettings() copies
\* { value, min, max, label } of every default, user edits change value
StoreWith(H) ==
    [key \in StoreKeys |->
        [value |-> IF key \in H THEN OtherValue(key) ELSE DefaultValue(key),
         label |-> key]]

\* createSettings()
CreateSettings == StoreWith({})

\* a serializeSettings that kept only the truthy values
SerializeSettingsTruthy(settings) ==
    [key \in {k \in DOMAIN settings :
                 "value" \in DOMAIN settings[k] /\ settings[k].value # 0} |->
        settings[key].value]

\* serializeSettings(settings)
SerializeSettings(settings) ==
    [key \in {k \in DOMAIN settings : "value" \in DOMAIN settings[k]} |->
        settings[key].value]

\* the loop of deserializeSettings without its test of settings[key]
RECURSIVE DeserializeAnyKeys(_, _, _)
DeserializeAnyKeys(settings, values, keys) ==
    IF keys = {}
    THEN settings
    ELSE LET key == CHOOSE k \in keys : TRUE
             next == [k \in DOMAIN settings \cup {key} |->
                         IF k = key
                         THEN IF key \in DOMAIN settings
                              THEN [settings[key] EXCEPT !.value = values[key]]
                              ELSE [value |-> values[key]]
                         ELSE settings[k]]
         IN  DeserializeAnyKeys(next, values, keys \ {key})

\* for (const [key, value] of Object.entries(values))
\*     if (settings[key] && typeof settings[key] === 'object') ...
RECURSIVE DeserializeKeys(_, _, _)
DeserializeKeys(settings, values, keys) ==
    IF keys = {}
    THEN settings
    ELSE LET key == CHOOSE k \in keys : TRUE
             next == IF key \in DOMAIN settings
                     THEN [settings EXCEPT ![key].value = values[key]]
                     ELSE settings
         IN  DeserializeKeys(next, values, keys \ {key})

\* deserializeSettings(settings, values)
DeserializeSettings(settings, values) ==
    DeserializeKeys(settings, values, DOMAIN values)

\* the store and the calls made on it: before is the store when the last
\* deserializeSettings was entered, values its argument, serialized the
\* result of the last serializeSettings, op the last call
CodecFresh(H) ==
    [settings |-> StoreWith(H), before |-> StoreWith(H), values |-> << >>,
     serialized |-> << >>, op |-> "none"]

(***************************************************************************)
(* audio/capture.js and audio/uniforms.js.  A JavaScript number is a       *)
(* fraction in lowest terms, or NaN, or Infinity; the arithmetic is exact, *)
(* where the code's is rounded to a double.                                *)
(***************************************************************************)
NaN == [num |-> 0, den |-> 0]
Infinity == [num |-> 1, den |-> 0]

RECURSIVE GCD(_, _)
GCD(a, b) == IF b = 0 THEN a ELSE GCD(b, a % b)

\* n / d for integers n >= 0, d >= 0
Divide(n, d) ==
    IF d = 0 THEN (IF n = 0 THEN NaN ELSE Infinity)
    ELSE [num |-> n \div GCD(n, d), den |-> d \div GCD(n, d)]

Zero == Divide(0, 1)
One == Divide(1, 1)

\* x * (s / 100) for a setting of s hundredths
Times(x, s) ==
    IF x = NaN THEN NaN
    ELSE IF x = Infinity THEN (IF s = 0 THEN NaN ELSE Infinity)
    ELSE Divide(x.num * s, x.den * 100)

\* Math.min(x, 1) without the clamp
MathMinNone(x) == x

\* Math.min(x, 1)
MathMin1(x) ==
    IF x = NaN THEN NaN
    ELSE IF x = Infinity THEN One
    ELSE IF x.num <= x.den THEN x ELSE One

\* (a + b + c) / 3
Mean3(a, b, c) ==
    IF NaN \in {a, b, c} THEN NaN
    ELSE IF Infinity \in {a, b, c} THEN Infinity
    ELSE Divide(a.num * b.den * c.den + b.num * a.den * c.den
                    + c.num * a.den * b.den,
                3 * a.den * b.den * c.den)

\* the bytes getByteFrequencyData writes
BinLevels == {0, 100, 255}

\* the values of a sensitivity setting, in hundredths
Sensitivities == {0, 50, 200}

\* the spectra of length n: every bin at one level, but for one bin at most
SpectraOfLength(n) ==
    {[i \in 1 .. n |-> IF i = hot THEN v ELSE f] :
        f \in {0, 255}, hot \in 0 .. n, v \in BinLevels}

Spectra == UNION {SpectraOfLength(n) : n \in 0 .. MaxLen}

\* the loop of analyzeAudio with "i <= bassEnd"
RECURSIVE BandLoopInclusive(_, _, _, _, _)
BandLoopInclusive(data, i, bassEnd, midEnd, sums) ==
    IF i >= Len(data) THEN sums
    ELSE BandLoopInclusive(data, i + 1, bassEnd, midEnd,
            IF i <= bassEnd THEN [sums EXCEPT !.bass = @ + data[i + 1]]
            ELSE IF i < midEnd THEN [sums EXCEPT !.mid = @ + data[i + 1]]
            ELSE [sums EXCEPT !.high = @ + data[i + 1]])

\* the loop of analyzeAudio; the sums are in 255ths
RECURSIVE BandLoop(_, _, _, _, _)
BandLoop(data, i, bassEnd, midEnd, sums) ==
    IF i >= Len(data) THEN sums
    ELSE BandLoop(data, i + 1, bassEnd, midEnd,
            IF i < bassEnd THEN [sums EXCEPT !.bass = @ + data[i + 1]]
            ELSE IF i < midEnd THEN [sums EXCEPT !.mid = @ + data[i + 1]]
            ELSE [sums EXCEPT !.high = @ + data[i + 1]])

\* Math.floor(len * 0.08), Math.floor(len * 0.4)
BassEnd(len) == (8 * len) \div 100
MidEnd(len) == (4 * len) \div 10

Silent == [bass |-> Zero, mid |-> Zero, high |-> Zero, overall |-> Zero]

\* analyzeAudio once the analyser has filled dataArray
Levels(data, settings) ==
    LET len == Len(data)
        bassEnd == BassEnd(len)
        midEnd == MidEnd(len)
        sums == BandLoop(data, 0, bassEnd, midEnd,
                         [bass |-> 0, mid |-> 0, high |-> 0])
        bassNorm == Divide(sums.bass, 255 * bassEnd)
        midNorm == Divide(sums.mid, 255 * (midEnd - bassEnd))
        highNorm == Divide(sums.high, 255 * (len - midEnd))
        bass == MathMin1(Times(bassNorm, settings.bassSensitivity))
        mid == MathMin1(Times(midNorm, settings.midSensitivity))
        high == MathMin1(Times(highNorm, settings.highSensitivity))
    IN  [bass |-> bass, mid |-> mid, high |-> high,
         overall |-> Mean3(bass, mid, high)]

\* the module's state before initAudio
CaptureStarted(spectrum, settings) ==
    [analyser |-> FALSE,        \* analyser and dataArray are set
     spectrum |-> spectrum,     \* what the analyser node delivers
     settings |-> settings,
     uniforms |-> Silent,       \* audioBass, audioMid, audioHigh, audioOverall
     audioData |-> Silent,      \* what the last analyzeAudio returned
     op |-> "none"]

CaptureIdle ==
    CaptureStarted(<< >>, [bassSensitivity |-> 200, midSensitivity |-> 200,
                           highSensitivity |-> 200])

\* analyzeAudio(settings), with updateAudioUniforms
AnalyzeAudio(a) ==
    IF ~a.analyser THEN [a EXCEPT !.audioData = Silent, !.op = "analyze"]
    ELSE LET data == Levels(a.spectrum, a.settings)
         IN  [a EXCEPT !.uniforms = data, !.audioData = data, !.op = "analyze"]

\* closeAudio()
CloseAudio(a) == [a EXCEPT !.analyser = FALSE, !.op = "close"]

\* setupAudioContext(audioTrack)
SetupAudioContext(a) == [a EXCEPT !.analyser = TRUE, !.op = "setup"]

(***************************************************************************)
(* calculateAudioMagnitude(config, audio), in the same exact arithmetic.   *)
(***************************************************************************)
\* x + y
Plus(x, y) ==
    IF NaN \in {x, y} THEN NaN
    ELSE IF Infinity \in {x, y} THEN Infinity
    ELSE Divide(x.num * y.den + y.num * x.den, x.den * y.den)

\* x * y
Product(x, y) ==
    IF NaN \in {x, y} THEN NaN
    ELSE IF Infinity \in {x, y} THEN (IF Zero \in {x, y} THEN NaN ELSE Infinity)
    ELSE Divide(x.num * y.num, x.den * y.den)

\* the positions of an intensity slider and of a band slider (0 to 100)
Intensities == {0, 50, 100}
Weights == {0, 30, 100}

\* the levels of a band the analyser returns
FeatureLevels == {Zero, Divide(1, 4), One}

\* calculateAudioMagnitude without the "1 +"
CalculateContributionOnly(config, audio) ==
    Product(Divide(config.intensity, 100),
            Plus(Plus(Product(audio.bass, Divide(config.bass, 100)),
                      Product(audio.mid, Divide(config.mid, 100))),
                 Product(audio.high, Divide(config.high, 100))))

CalculateAudioMagnitude(config, audio) ==
    LET baseMagnitude == Divide(config.intensity, 100)
        bassContribution == Product(audio.bass, Divide(config.bass, 100))
        midContribution == Product(audio.mid, Divide(config.mid, 100))
        highContribution == Product(audio.high, Divide(config.high, 100))
        totalContribution ==
            Plus(Plus(bassContribution, midContribution), highContribution)
    IN  Product(baseMagnitude, Plus(One, totalContribution))

\* a control and the features of a tick, before the mapper is called
ReactiveStarted(config, audio) ==
    [config |-> config, audio |-> audio, magnitude |-> Zero,
     previous |-> << >>, op |-> "none"]

ReactiveIdle ==
    ReactiveStarted([intensity |-> 0, bass |-> 0, mid |-> 0, high |-> 0],
                    [bass |-> Zero, mid |-> Zero, high |-> Zero])

(***************************************************************************)
(* The per-frame procedure: animate() of core/bootstrap.js (primary        *)
(* window) and of spout-renderer.js (secondary window), as the sequence of *)
(* the calls one execution makes.                                          *)
(***************************************************************************)
\* the features analyzeAudio returns in a tick
TickFeatures ==
    {[bass |-> b, mid |-> Zero, high |-> h, overall |-> Mean3(b, Zero, h)] :
        b, h \in FeatureLevels}

\* a window whose loop runs: the renderer, the controls and the
\* post-processing exist; the registry may have no scene type installed
DriverStarted(window, onAudioUpdate, onRender, sceneType) ==
    [window |-> window,
     onAudioUpdate |-> onAudioUpdate,   \* appState.onAudioUpdate is set
     onRender |-> onRender,             \* appState.onRender is set
     sceneType |-> sceneType,           \* registry: currentSceneType
     steps |-> << >>,                   \* the calls of the last animate()
     audioData |-> << >>,               \* what analyzeAudio returned in it
     passed |-> << >>]                  \* the audioData argument of the update

DriverIdle == DriverStarted("primary", TRUE, FALSE, NULL)

\* render(): controls.update(), postProcessing.render()
Render == << "controls.update", "postProcessing.render" >>

\* updateScene(delta, settings, renderer): the fourth parameter is undefined
UpdateScene(d) ==
    IF d.sceneType = NULL THEN d
    ELSE [d EXCEPT !.steps = Append(@, "update"), !.passed = << >>]

\* bootstrap.js animate()
BootstrapAnimate(d, audioData) ==
    LET d1 == [d EXCEPT
                !.audioData = << audioData >>,
                !.passed = << >>,
                !.steps = << "getDelta", "analyzeAudio" >>
                    \o (IF d.onAudioUpdate THEN << "onAudioUpdate" >> ELSE << >>)
                    \o << "updateBloom", "updateControls" >>]
        d2 == UpdateScene(d1)
    IN  [d2 EXCEPT !.steps = @ \o (IF d.onRender THEN << "onRender" >> ELSE << >>)
                                \o Render]

\* spout-renderer.js animate()
SpoutRendererAnimate(d) ==
    [d EXCEPT !.audioData = << >>,
              !.passed = << >>,
              !.steps = << "getDelta", "updateBloom", "updateControls" >>
                  \o (IF d.sceneType \in Scenes THEN << "update" >> ELSE << >>)
                  \o Render]

(***************************************************************************)
(* spout/sync.js and electron/main.js: the channel from the primary        *)
(* window to the secondary one.  The primary window sends on an ordered    *)
(* pipe to the main process ("wire"); the main process handles one message *)
(* at a time and forwards a sync message to the secondary window when its  *)
(* variable spoutWindow is set.  The whole state is one record.            *)
(***************************************************************************)
\* the keys of the primary window's store the model follows: the keys
\* syncSettingsToSpout lists, and one key of defaultSettings it does not list
UnsyncedKey == "bloomIntensity"
PrimaryKeys == SnapKeys \cup {UnsyncedKey}

\* the sliders the user moves
EditKeys == {"bassSensitivity", UnsyncedKey}

\* defaultSettings, in hundredths
PrimaryDefault(key) == IF key = UnsyncedKey THEN 75 ELSE DefaultValue(key)

\* the audio features of a tick (the analyser is modelled on its own)
AudioData == [bass |-> 0, mid |-> 0, high |-> 0, overall |-> 0]

NoTick == [ran |-> FALSE, receiver |-> FALSE, pushed |-> 0]

\* the two processes when the primary window has loaded
SyncStarted(api, available, active) ==
    [spoutAPI |-> api,              \* typeof window.spoutAPI !== 'undefined'
     audioActive |-> active,        \* isAudioActive()
     settings |-> [key \in PrimaryKeys |-> PrimaryDefault(key)],
     spoutEnabled |-> FALSE,        \* settings.spoutEnabled.value
     call |-> "none",               \* the invoke the checkbox handler awaits
     reply |-> "none",              \* the result on its way to that handler
     wire |-> << >>,                \* sent by the primary, not yet handled
     spoutAvailable |-> available,  \* main.js: the native module loaded
     spoutWindow |-> NULL,          \* main.js: spoutWindow, and its page
     loading |-> FALSE,             \* spout:enable is at "await createSpoutWindow()"
     mainEnabled |-> FALSE,         \* main.js: spoutEnabled
     windows |-> 0,                 \* BrowserWindows created for the output
     inbox |-> {},                  \* delivered to the page: << type, window >>
     err |-> "none",
     tick |-> NoTick,               \* the last animate() (instrumentation)
     dropped |-> NULL]              \* the last message no window was there for

SyncIdle == SyncStarted(TRUE, TRUE, TRUE)

\* window.spoutAPI.<method>(data): ipcRenderer.send / invoke
Send(c, type, data) ==
    [c EXCEPT !.wire = Append(@, [type |-> type, data |-> data])]

\* the object syncSettingsToSpout builds
SettingsData(settings) == [key \in SnapKeys |-> settings[key]]

SyncSettingsToSpout(c) ==
    IF ~c.spoutAPI \/ ~c.spoutEnabled THEN c
    ELSE Send(c, "sync:settings", SettingsData(c.settings))

SyncAudioToSpout(c, audioData) ==
    IF ~c.spoutAPI THEN c ELSE Send(c, "sync:audio", audioData)

SyncSceneToSpout(c, sceneType) ==
    IF ~c.spoutAPI THEN c ELSE Send(c, "sync:scene", [sceneType |-> sceneType])

SyncTimeToSpout(c) ==
    IF ~c.spoutAPI THEN c ELSE Send(c, "sync:time", [elapsedTime |-> 0])

\* main.js onAudioUpdate, as animate() calls it
OnAudioUpdate(c, audioData) ==
    IF c.audioActive THEN SyncAudioToSpout(c, audioData) ELSE c

\* animate(): the part that concerns the channel
SyncAnimate(c) ==
    LET c1 == OnAudioUpdate(c, AudioData)
    IN  [c1 EXCEPT !.tick = [ran |-> TRUE,
                             receiver |-> c.spoutWindow # NULL,
                             pushed |-> Len(c1.wire) - Len(c.wire)]]

\* a control's handleChange: the value is stored, then onChange()
EditSetting(c, key) ==
    LET to == IF c.settings[key] = PrimaryDefault(key)
              THEN OtherValue(key) ELSE PrimaryDefault(key)
    IN  SyncSettingsToSpout([c EXCEPT !.settings[key] = to])

\* the checkbox of createSpoutControls: onEnableChange(enabled) up to its await
ToggleSpout(c, enabled) ==
    [Send(c, IF enabled THEN "spout:enable" ELSE "spout:disable", << >>)
        EXCEPT !.call = IF enabled THEN "enable" ELSE "disable"]

\* onEnableChange after its await
EnableSettled(c) ==
    LET c0 == [c EXCEPT !.call = "none", !.reply = "none"]
    IN  CASE c.reply = "success" ->
                SyncSettingsToSpout([c0 EXCEPT !.spoutEnabled = TRUE])
          [] c.reply = "disabled" ->
                SyncSettingsToSpout([c0 EXCEPT !.spoutEnabled = FALSE])
          [] OTHER -> c0

\* what the two processes hold, without the pipe and the instrumentation
ProgramState(c) == [c EXCEPT !.wire = << >>, !.tick = NoTick, !.dropped = NULL]

SyncTypes == {"sync:settings", "sync:audio", "sync:scene", "sync:time"}

\* ipcMain.on('sync:...') without its test of spoutWindow
RelayUnguarded(c, msg) ==
    IF c.spoutWindow = NULL THEN [c EXCEPT !.err = "TypeError"]
    ELSE [c EXCEPT !.inbox = @ \cup {<< msg.type, c.windows >>}]

\* ipcMain.on('sync:...'): a page that has not run yet has no listener
Relay(c, msg) ==
    IF c.spoutWindow = NULL THEN [c EXCEPT !.dropped = msg.type]
    ELSE IF c.spoutWindow = "loaded"
         THEN [c EXCEPT !.inbox = @ \cup {<< msg.type, c.windows >>}]
         ELSE c

\* spout:enable after "await createSpoutWindow()"
EnableDone(c) ==
    [c EXCEPT !.loading = FALSE, !.mainEnabled = TRUE, !.reply = "success"]

\* ipcMain.handle('spout:enable') up to its await
SpoutEnable(c) ==
    IF ~c.spoutAvailable THEN [c EXCEPT !.reply = "failure"]
    ELSE IF c.spoutWindow # NULL THEN EnableDone(c)
    ELSE [c EXCEPT !.spoutWindow = "loading", !.loading = TRUE,
                   !.windows = @ + 1]

\* ipcMain.handle('spout:disable'), destroySpoutWindow
SpoutDisable(c) ==
    [c EXCEPT !.mainEnabled = FALSE, !.spoutWindow = NULL, !.inbox = {},
              !.reply = "disabled"]

\* the main process handles the next message of the primary window
MainHandle(c) ==
    LET msg == Head(c.wire)
        c0 == [c EXCEPT !.wire = Tail(@)]
    IN  CASE msg.type = "spout:enable" -> SpoutEnable(c0)
          [] msg.type = "spout:disable" -> SpoutDisable(c0)
          [] OTHER -> Relay(c0, msg)


(***************************************************************************)
(* electron/main.js: the main process, with the Spout controls of the      *)
(* primary window and the page of the output window.                       *)
(***************************************************************************)
DefaultName == "Music Visualizer"
SenderNames == {DefaultName, "Studio"}

\* spoutSender = null; otherwise the call that created the sender, and its name
NoSender == [by |-> 0, name |-> ""]

\* what the main process did last: op "enable" is a return of spout:enable
MainEv(op, call, success, forwarded) ==
    [op |-> op, call |-> call, success |-> success, forwarded |-> forwarded]

\* new BrowserWindow({ offscreen ... }): closed once close() was called on
\* it, gone once it is destroyed, painting once the paint handler is attached
NewWindow ==
    [load |-> "loading", closed |-> FALSE, gone |-> FALSE, painting |-> FALSE,
     page |-> SpoutFresh(TRUE), inbox |-> << >>]

\* the process after createMainWindow(): handler says whether the primary's
\* entry point registered onSceneRequest, scene is the primary's variant
ElectronStarted(available, handler, scene) ==
    [spoutAvailable |-> available,
     handler |-> handler,
     scene |-> scene,
     mainWindow |-> TRUE,
     spoutWindow |-> 0,             \* 0: null, else an index of win
     win |-> << >>,                 \* the output windows created so far
     spoutSender |-> NoSender,
     spoutEnabled |-> FALSE,
     spoutSenderName |-> DefaultName,
     gui |-> [name |-> DefaultName,     \* settings.spoutSenderName.value
              enabled |-> FALSE,        \* settings.spoutEnabled.value
              checked |-> FALSE],       \* the "Enable Spout" checkbox
     calls |-> {},                  \* spout:enable handlers awaiting loadFile
     replies |-> << >>,             \* results of invoke on their way back
     requests |-> 0,                \* spout:request-scene on their way
     wire |-> << >>,                \* sync:scene on their way to the process
     ncall |-> 0,
     nact |-> 0,
     last |-> "none",               \* "succeeded" / "disabled": the last
                                    \* enable that returned success, or disable
     ev |-> MainEv("none", 0, FALSE, FALSE)]

ElectronIdle == ElectronStarted(FALSE, FALSE, "particles")

\* the result of a handler travels back to the page that invoked it
Reply(m, op, success) ==
    IF m.mainWindow
    THEN [m EXCEPT !.replies = Append(@, [op |-> op, success |-> success])]
    ELSE m

\* a BrowserWindow reference that can be used: not null, not destroyed
Usable(m) == m.spoutWindow # 0 /\ ~m.win[m.spoutWindow].gone

\* spout:enable from "spoutSender = new SpoutOutput(spoutSenderName)" to its
\* return; mainWindow.webContents throws when mainWindow is null
EnableTail(m, id) ==
    LET m1 == [m EXCEPT !.spoutSender = [by |-> id, name |-> m.spoutSenderName],
                        !.spoutEnabled = TRUE]
    IN  IF ~m.mainWindow
        THEN [Reply(m1, "enable", FALSE) EXCEPT
                 !.ev = MainEv("enable", id, FALSE, FALSE)]
        ELSE [Reply([m1 EXCEPT !.requests = @ + 1, !.last = "succeeded"],
                    "enable", TRUE) EXCEPT
                 !.ev = MainEv("enable", id, TRUE, FALSE)]

\* ipcMain.handle('spout:enable') to its return or to
\* "await spoutWindow.loadFile(...)" in createSpoutWindow
IpcSpoutEnable(m, id) ==
    IF ~m.spoutAvailable
    THEN [Reply(m, "enable", FALSE) EXCEPT !.ev = MainEv("enable", id, FALSE, FALSE)]
    ELSE IF m.spoutWindow # 0
    THEN EnableTail(m, id)
    ELSE [m EXCEPT !.win = Append(@, NewWindow),
                   !.spoutWindow = Len(m.win) + 1,
                   !.calls = @ \cup {[id |-> id, window |-> Len(m.win) + 1]},
                   !.ev = MainEv("loading", id, FALSE, FALSE)]

\* createSpoutWindow after loadFile resolved (the page has run by then), and
\* the rest of spout:enable; spoutWindow.webContents throws on null and on a
\* destroyed window
CreateSpoutWindowLoaded(m, call) ==
    LET m0 == [m EXCEPT !.calls = @ \ {call},
                        !.win[call.window].load = "loaded",
                        !.win[call.window].page = SpoutStarted(TRUE)]
    IN  IF ~Usable(m0)
        THEN [Reply(m0, "enable", FALSE) EXCEPT
                 !.ev = MainEv("enable", call.id, FALSE, FALSE)]
        ELSE EnableTail([m0 EXCEPT !.win[m0.spoutWindow].painting = TRUE], call.id)

\* loadFile rejected: the catch block of spout:enable
CreateSpoutWindowFailed(m, call) ==
    [Reply([m EXCEPT !.calls = @ \ {call}, !.win[call.window].load = "failed"],
           "enable", FALSE) EXCEPT
        !.ev = MainEv("enable", call.id, FALSE, FALSE)]

\* spoutWindow.close()
CloseSpoutWindow(m) ==
    IF Usable(m) THEN [m EXCEPT !.win[m.spoutWindow].closed = TRUE] ELSE m

\* destroySpoutWindow()
DestroySpoutWindow(m) ==
    [CloseSpoutWindow(m) EXCEPT !.spoutWindow = 0, !.spoutSender = NoSender]

\* ipcMain.handle('spout:disable')
IpcSpoutDisable(m) ==
    [Reply([DestroySpoutWindow(m) EXCEPT !.spoutEnabled = FALSE,
                                         !.last = "disabled"],
           "disable", TRUE) EXCEPT
        !.ev = MainEv("disable", 0, TRUE, FALSE)]

\* updateSpoutSenderName(name)
UpdateSpoutSenderName(m, name) ==
    [m EXCEPT !.spoutSenderName = name,
              !.spoutSender = IF m.spoutEnabled /\ @.by # 0
                              THEN [@ EXCEPT !.name = name] ELSE @,
              !.ev = MainEv("name", 0, TRUE, FALSE)]

\* the 'paint' handler of an output window
OnPaint(m) ==
    [m EXCEPT !.ev = MainEv("paint", 0, TRUE, m.spoutSender.by # 0 /\ m.spoutEnabled)]

\* mainWindow.on('closed'): the page of the primary window is gone with it
OnMainClosed(m) ==
    [CloseSpoutWindow(m) EXCEPT !.mainWindow = FALSE, !.replies = << >>,
                                !.requests = 0,
                                !.ev = MainEv("closed", 0, TRUE, FALSE)]

\* ipcMain.on('sync:scene'): a page that has not run yet has no listener
IpcSyncScene(m) ==
    LET sceneType == Head(m.wire)
        m0 == [m EXCEPT !.wire = Tail(@), !.ev = MainEv("relay", 0, TRUE, FALSE)]
    IN  IF Usable(m) /\ m.win[m.spoutWindow].load = "loaded"
        THEN [m0 EXCEPT !.win[m.spoutWindow].inbox = Append(@, sceneType)]
        ELSE m0

\* the checkbox handler of createSpoutControls, to its await
OnEnableChange(m) ==
    LET m0 == [m EXCEPT !.gui.checked = ~@, !.nact = @ + 1]
    IN  IF m0.gui.checked
        THEN IpcSpoutEnable([m0 EXCEPT !.ncall = @ + 1], m.ncall + 1)
        ELSE IpcSpoutDisable(m0)

\* the checkbox handler after its await
OnEnableSettled(m) ==
    LET reply == Head(m.replies)
        m0 == [m EXCEPT !.replies = Tail(@)]
    IN  IF reply.op = "disable" THEN [m0 EXCEPT !.gui.enabled = FALSE]
        ELSE IF reply.success THEN [m0 EXCEPT !.gui.enabled = TRUE]
        ELSE m0

\* nameInput.onchange and the name callback of createSpoutControls
OnNameChange(m, name) ==
    LET m0 == [m EXCEPT !.gui.name = name, !.nact = @ + 1]
    IN  IF m0.gui.enabled THEN UpdateSpoutSenderName(m0, name) ELSE m0

\* window.spoutAPI.onSceneRequest(...) of the primary window, if registered
OnSceneRequest(m) ==
    LET m0 == [m EXCEPT !.requests = @ - 1]
    IN  IF m.handler THEN [m0 EXCEPT !.wire = Append(@, m.scene)] ELSE m0

(***************************************************************************)
(* The primary window: actions.                                            *)
(***************************************************************************)
StartVisualizer ==
    /\ linked
    /\ nreq < MaxRequests
    /\ Become(StartVisualizerBody(St))

AudioSettled ==
    \E task \in tasks, ok \in BOOLEAN :
        /\ task.stage = "audio"
        /\ Become(AudioSettledBody(St, task, ok))

RendererReady ==
    \E task \in tasks :
        /\ task.stage = "renderer"
        /\ Become(RendererReadyBody(St, task))

SceneResolved ==
    \E task \in tasks :
        /\ task.stage = "scene"
        /\ Become(SceneResolvedBody(St, task))

SceneRejected ==
    \E task \in tasks :
        /\ task.stage = "scene"
        /\ Become(SceneRejectedBody(St, task))

SwitchSceneWithGUI ==
    \E t \in RequestIds :
        /\ selector
        /\ nreq < MaxRequests
        /\ Become(SwitchSceneWithGUIBody(St, t))

Animate ==
    /\ loop
    /\ Become(AnimateBody(St))

Init ==
    /\ linked \in BOOLEAN
    /\ webgpu \in BOOLEAN
    /\ urlScene \in RequestIds
    /\ isStarting = FALSE
    /\ audioInitialized = FALSE
    /\ mainSceneType = "particles"
    /\ app = NoScene
    /\ selector = FALSE
    /\ appInit = FALSE
    /\ rendererObj = FALSE
    /\ rendererInit = FALSE
    /\ loop = FALSE
    /\ ppScene = NoScene
    /\ currentSceneType = NULL
    /\ currentScene = NoScene
    /\ currentSceneCleanup = NULL
    /\ skin = [scene |-> NoScene, loaded |-> FALSE, pathSynced |-> FALSE]
    /\ scenes = << >>
    /\ tasks = {}
    /\ nreq = 0
    /\ ev = NoEv
    /\ spout = SpoutStarted(TRUE)
    /\ nmsg = 0
    /\ frame = {}
    /\ lastScene = NULL
    /\ codec = CodecFresh({})
    /\ sync = SyncIdle
    /\ capture = CaptureIdle
    /\ reactive = ReactiveIdle
    /\ driver = DriverIdle
    /\ electron = ElectronIdle

Next ==
    \/ StartVisualizer
    \/ AudioSettled
    \/ RendererReady
    \/ SceneResolved
    \/ SceneRejected
    \/ SwitchSceneWithGUI
    \/ Animate

Spec == Init /\ [][Next]_vars

(***************************************************************************)
(* The secondary window: actions.                                          *)
(***************************************************************************)

\* window.spoutSync.onSettings((s) => updateSettings(s))
RecvSettings ==
    \E newSettings \in Snapshots :
        /\ nmsg < MaxMessages
        /\ spout' = SpoutUpdateSettings(spout, newSettings)
        /\ nmsg' = nmsg + 1
        /\ frame' = frame \cup {"settings"}
        /\ UNCHANGED << lastScene, primaryVars, restVars >>

\* window.spoutSync.onAudio((a) => updateAudio(a))
RecvAudio ==
    \E audioData \in AudioSnapshots :
        /\ nmsg < MaxMessages
        /\ spout' = SpoutUpdateAudio(spout, audioData)
        /\ nmsg' = nmsg + 1
        /\ UNCHANGED << frame, lastScene, primaryVars, restVars >>

\* window.spoutSync.onScene((sceneType) => switchScene(sceneType))
RecvScene ==
    \E t \in RequestIds :
        /\ nmsg < MaxMessages
        /\ spout' = SpoutSwitchScene(spout, t)
        /\ nmsg' = nmsg + 1
        /\ frame' = frame \cup {"scene"}
        /\ lastScene' = t
        /\ UNCHANGED << primaryVars, restVars >>

SpoutRendererInitDone ==
    \E task \in spout.tasks :
        /\ task.stage = "renderer"
        /\ spout' = SpoutRendererReady(spout, task)
        /\ UNCHANGED << nmsg, frame, lastScene, primaryVars, restVars >>

SpoutModelLoaded ==
    \E task \in spout.tasks :
        /\ task.stage = "scene"
        /\ spout' = SpoutSceneResolved(spout, task)
        /\ UNCHANGED << nmsg, frame, lastScene, primaryVars, restVars >>

SpoutModelFailed ==
    \E task \in spout.tasks :
        /\ task.stage = "scene"
        /\ spout' = SpoutSceneRejected(spout, task)
        /\ UNCHANGED << nmsg, frame, lastScene, primaryVars, restVars >>

\* a frame callback of the loop
SpoutTick ==
    /\ spout.loop
    /\ spout' = SpoutAnimate(spout)
    /\ frame' = {}
    /\ UNCHANGED << nmsg, lastScene, primaryVars, restVars >>

InitSpout ==
    /\ linked = TRUE
    /\ webgpu = TRUE
    /\ urlScene = "particles"
    /\ isStarting = FALSE
    /\ audioInitialized = FALSE
    /\ mainSceneType = "particles"
    /\ app = NoScene
    /\ selector = FALSE
    /\ appInit = FALSE
    /\ rendererObj = FALSE
    /\ rendererInit = FALSE
    /\ loop = FALSE
    /\ ppScene = NoScene
    /\ currentSceneType = NULL
    /\ currentScene = NoScene
    /\ currentSceneCleanup = NULL
    /\ skin = [scene |-> NoScene, loaded |-> FALSE, pathSynced |-> FALSE]
    /\ scenes = << >>
    /\ tasks = {}
    /\ nreq = 0
    /\ ev = NoEv
    /\ \E w \in BOOLEAN : spout = SpoutStarted(w)
    /\ nmsg = 0
    /\ frame = {}
    /\ lastScene = NULL
    /\ codec = CodecFresh({})
    /\ sync = SyncIdle
    /\ capture = CaptureIdle
    /\ reactive = ReactiveIdle
    /\ driver = DriverIdle
    /\ electron = ElectronIdle

NextSpout ==
    \/ RecvSettings
    \/ RecvAudio
    \/ RecvScene
    \/ SpoutRendererInitDone
    \/ SpoutModelLoaded
    \/ SpoutModelFailed
    \/ SpoutTick

SpecSpout == InitSpout /\ [][NextSpout]_vars

(***************************************************************************)
(* settings/utils.js: actions.                                             *)
(***************************************************************************)

\* the primary and the secondary window before anything runs
WindowsIdle ==
    /\ linked = TRUE
    /\ webgpu = TRUE
    /\ urlScene = "particles"
    /\ isStarting = FALSE
    /\ audioInitialized = FALSE
    /\ mainSceneType = "particles"
    /\ app = NoScene
    /\ selector = FALSE
    /\ appInit = FALSE
    /\ rendererObj = FALSE
    /\ rendererInit = FALSE
    /\ loop = FALSE
    /\ ppScene = NoScene
    /\ currentSceneType = NULL
    /\ currentScene = NoScene
    /\ currentSceneCleanup = NULL
    /\ skin = [scene |-> NoScene, loaded |-> FALSE, pathSynced |-> FALSE]
    /\ scenes = << >>
    /\ tasks = {}
    /\ nreq = 0
    /\ ev = NoEv
    /\ spout = SpoutStarted(TRUE)
    /\ nmsg = 0
    /\ frame = {}
    /\ lastScene = NULL

\* deserializeSettings(settings, values)
Deserialize ==
    \E values \in ValueObjects :
        /\ codec' = [codec EXCEPT
                        !.before = codec.settings,
                        !.values = values,
                        !.settings = DeserializeSettings(codec.settings, values),
                        !.op = "deserialize"]
        /\ UNCHANGED << primaryVars, spoutVars, sync, capture, reactive, driver, electron >>

\* serializeSettings(settings)
Serialize ==
    /\ codec' = [codec EXCEPT !.serialized = SerializeSettings(codec.settings),
                              !.op = "serialize"]
    /\ UNCHANGED << primaryVars, spoutVars, sync, capture, reactive, driver, electron >>

InitSettings ==
    /\ WindowsIdle
    /\ \E H \in SUBSET StoreKeys : codec = CodecFresh(H)
    /\ sync = SyncIdle
    /\ capture = CaptureIdle
    /\ reactive = ReactiveIdle
    /\ driver = DriverIdle
    /\ electron = ElectronIdle

NextSettings ==
    \/ Deserialize
    \/ Serialize

SpecSettings == InitSettings /\ [][NextSettings]_vars

(***************************************************************************)
(* The channel: actions.  A checkbox change is handled to its end before   *)
(* the next one is taken.                                                  *)
(***************************************************************************)
SyncStep(c) ==
    /\ sync' = c
    /\ UNCHANGED << primaryVars, spoutVars, codec, capture, reactive, driver, electron >>

\* animate() in the primary window
SyncTick ==
    /\ Len(sync.wire) < MaxWire
    /\ SyncStep(SyncAnimate(sync))

\* the user moves a slider
UserEdit ==
    /\ Len(sync.wire) < MaxWire
    /\ \E key \in EditKeys : SyncStep(EditSetting(sync, key))

\* init / switchSceneWithGUI: syncSceneToSpout(sceneType)
PushScene ==
    /\ Len(sync.wire) < MaxWire
    /\ sync.spoutAPI
    /\ \E sceneType \in Scenes : SyncStep(SyncSceneToSpout(sync, sceneType))

\* syncTimeToSpout(elapsedTime)
PushTime ==
    /\ Len(sync.wire) < MaxWire
    /\ sync.spoutAPI
    /\ SyncStep(SyncTimeToSpout(sync))

\* the user changes the "Enable Spout" checkbox (Electron only)
UserToggle ==
    /\ sync.spoutAPI
    /\ sync.call = "none"
    /\ Len(sync.wire) < MaxWire
    /\ \E enabled \in BOOLEAN :
        /\ enabled => sync.windows < MaxWindows
        /\ SyncStep(ToggleSpout(sync, enabled))

\* the main process takes the next message
MainHandles ==
    /\ sync.wire # << >>
    /\ SyncStep(MainHandle(sync))

\* loadFile('spout-output.html') resolves: the page has run
SpoutLoaded ==
    /\ sync.loading
    /\ SyncStep(EnableDone([sync EXCEPT !.spoutWindow = "loaded"]))

\* loadFile rejects: the catch of spout:enable
SpoutLoadFailed ==
    /\ sync.loading
    /\ SyncStep([sync EXCEPT !.loading = FALSE, !.reply = "failure"])

\* the checkbox handler resumes with the result
EnableSettles ==
    /\ sync.reply # "none"
    /\ Len(sync.wire) < MaxWire
    /\ SyncStep(EnableSettled(sync))

InitSync ==
    /\ WindowsIdle
    /\ codec = CodecFresh({})
    /\ \E api, available, active \in BOOLEAN :
            sync = SyncStarted(api, available, active)
    /\ capture = CaptureIdle
    /\ reactive = ReactiveIdle
    /\ driver = DriverIdle
    /\ electron = ElectronIdle

NextSync ==
    \/ SyncTick
    \/ UserEdit
    \/ PushScene
    \/ PushTime
    \/ UserToggle
    \/ MainHandles
    \/ SpoutLoaded
    \/ SpoutLoadFailed
    \/ EnableSettles

SpecSync == InitSync /\ [][NextSync]_vars

(***************************************************************************)
(* The analyser: actions.                                                  *)
(***************************************************************************)
CaptureStep(a) ==
    /\ capture' = a
    /\ UNCHANGED << primaryVars, spoutVars, codec, sync, reactive, driver, electron >>

\* initAudio succeeds
AudioConnects ==
    /\ ~capture.analyser
    /\ CaptureStep(SetupAudioContext(capture))

\* animate(): analyzeAudio(settings)
CaptureTick ==
    /\ capture.settings # << >>
    /\ CaptureStep(AnalyzeAudio(capture))

AudioCloses ==
    /\ capture.analyser
    /\ CaptureStep(CloseAudio(capture))

InitCapture ==
    /\ WindowsIdle
    /\ codec = CodecFresh({})
    /\ sync = SyncIdle
    /\ \E spectrum \in Spectra, b, m, h \in Sensitivities :
            capture = CaptureStarted(spectrum,
                          [bassSensitivity |-> b, midSensitivity |-> m,
                           highSensitivity |-> h])
    /\ reactive = ReactiveIdle
    /\ driver = DriverIdle
    /\ electron = ElectronIdle

NextCapture ==
    \/ AudioConnects
    \/ CaptureTick
    \/ AudioCloses

SpecCapture == InitCapture /\ [][NextCapture]_vars

(***************************************************************************)
(* The mapper: actions.                                                    *)
(***************************************************************************)
\* a frame: the control is mapped with the features of the tick
Calculate ==
    /\ reactive' = [reactive EXCEPT
            !.magnitude = CalculateAudioMagnitude(reactive.config, reactive.audio),
            !.previous = IF reactive.op = "none" THEN << >>
                         ELSE << reactive.audio, reactive.magnitude >>,
            !.op = "calculate"]
    /\ UNCHANGED << primaryVars, spoutVars, codec, sync, capture, driver, electron >>

\* the next tick brings other features
NextFeatures ==
    /\ reactive.op = "calculate"
    /\ \E b, m, h \in FeatureLevels :
         reactive' = [reactive EXCEPT
                        !.audio = [bass |-> b, mid |-> m, high |-> h],
                        !.op = "features"]
    /\ UNCHANGED << primaryVars, spoutVars, codec, sync, capture, driver, electron >>

InitReactive ==
    /\ WindowsIdle
    /\ codec = CodecFresh({})
    /\ sync = SyncIdle
    /\ capture = CaptureIdle
    /\ \E i \in Intensities, wb, wm, wh \in Weights, b, m, h \in FeatureLevels :
            reactive = ReactiveStarted(
                [intensity |-> i, bass |-> wb, mid |-> wm, high |-> wh],
                [bass |-> b, mid |-> m, high |-> h])
    /\ driver = DriverIdle
    /\ electron = ElectronIdle

NextReactive ==
    \/ Calculate
    \/ NextFeatures

SpecReactive == InitReactive /\ [][NextReactive]_vars

(***************************************************************************)
(* The per-frame procedure: actions.                                       *)
(***************************************************************************)
\* a frame of the primary window
PrimaryFrame ==
    /\ driver.window = "primary"
    /\ \E audioData \in TickFeatures :
            driver' = BootstrapAnimate(driver, audioData)
    /\ UNCHANGED << primaryVars, spoutVars, codec, sync, capture, reactive, electron >>

\* a frame of the secondary window
SecondaryFrame ==
    /\ driver.window = "secondary"
    /\ driver' = SpoutRendererAnimate(driver)
    /\ UNCHANGED << primaryVars, spoutVars, codec, sync, capture, reactive, electron >>

\* the registry installs another scene type, or none
SceneTypeChanges ==
    /\ \E sceneType \in Scenes \cup {NULL} :
            /\ sceneType # driver.sceneType
            /\ driver' = [driver EXCEPT !.sceneType = sceneType]
    /\ UNCHANGED << primaryVars, spoutVars, codec, sync, capture, reactive, electron >>

InitDriver ==
    /\ WindowsIdle
    /\ codec = CodecFresh({})
    /\ sync = SyncIdle
    /\ capture = CaptureIdle
    /\ reactive = ReactiveIdle
    /\ \/ \E onAudioUpdate, onRender \in BOOLEAN :
            driver = DriverStarted("primary", onAudioUpdate, onRender, "particles")
       \/ driver = DriverStarted("secondary", FALSE, FALSE, "particles")
    /\ electron = ElectronIdle

NextDriver ==
    \/ PrimaryFrame
    \/ SecondaryFrame
    \/ SceneTypeChanges

SpecDriver == InitDriver /\ [][NextDriver]_vars

(***************************************************************************)
(* The main process: actions.                                              *)
(***************************************************************************)
ElectronStep(m) ==
    /\ electron' = m
    /\ UNCHANGED << primaryVars, spoutVars, codec, sync, capture, reactive, driver >>

WindowIds == 1 .. Len(electron.win)

\* the user changes the "Enable Spout" checkbox
UserTogglesSpout ==
    /\ electron.mainWindow
    /\ electron.nact < MaxActions
    /\ ~electron.gui.checked => electron.ncall < MaxEnables
    /\ ElectronStep(OnEnableChange(electron))

\* the user enters a sender name
UserEntersName ==
    /\ electron.mainWindow
    /\ electron.nact < MaxActions
    /\ \E name \in SenderNames \ {electron.gui.name} :
            ElectronStep(OnNameChange(electron, name))

\* the result of spout:enable or spout:disable reaches the checkbox handler
InvokeSettles ==
    /\ electron.mainWindow
    /\ electron.replies # << >>
    /\ ElectronStep(OnEnableSettled(electron))

\* the user closes the primary window
MainWindowCloses ==
    /\ electron.mainWindow
    /\ electron.nact < MaxActions
    /\ ElectronStep(OnMainClosed([electron EXCEPT !.nact = @ + 1]))

\* loadFile('spout-output.html') resolves, on a window that still exists
SpoutWindowLoads ==
    \E call \in electron.calls :
        /\ ~electron.win[call.window].gone
        /\ ElectronStep(CreateSpoutWindowLoaded(electron, call))

\* loadFile rejects
SpoutWindowLoadFails ==
    \E call \in electron.calls :
        /\ electron.win[call.window].load = "loading"
        /\ ElectronStep(CreateSpoutWindowFailed(electron, call))

\* a window on which close() was called is destroyed
SpoutWindowDestroyed ==
    \E w \in WindowIds :
        /\ electron.win[w].closed
        /\ ~electron.win[w].gone
        /\ ElectronStep([electron EXCEPT !.win[w].gone = TRUE,
                                         !.win[w].inbox = << >>])

\* an output window paints a frame
Paints ==
    \E w \in WindowIds :
        /\ electron.win[w].painting
        /\ ~electron.win[w].gone
        /\ ElectronStep(OnPaint(electron))

\* spout:request-scene reaches the primary window
SceneRequested ==
    /\ electron.requests > 0
    /\ ElectronStep(OnSceneRequest(electron))

\* the main process takes the next sync:scene
SceneRelayed ==
    /\ electron.wire # << >>
    /\ ElectronStep(IpcSyncScene(electron))

\* the page of an output window takes its next sync:scene: switchScene
SecondaryRecvScene ==
    \E w \in WindowIds :
        /\ ~electron.win[w].gone
        /\ electron.win[w].inbox # << >>
        /\ ElectronStep([electron EXCEPT
                !.win[w].inbox = Tail(@),
                !.win[w].page = SpoutSwitchScene(@, Head(electron.win[w].inbox))])

\* renderer.init() of the output page resolves
SecondaryRendererReady ==
    \E w \in WindowIds : \E task \in electron.win[w].page.tasks :
        /\ ~electron.win[w].gone
        /\ task.stage = "renderer"
        /\ ElectronStep([electron EXCEPT !.win[w].page = SpoutRendererReady(@, task)])

\* the model download of the output page settles
SecondaryModelSettles ==
    \E w \in WindowIds : \E task \in electron.win[w].page.tasks : \E ok \in BOOLEAN :
        /\ ~electron.win[w].gone
        /\ task.stage = "scene"
        /\ ElectronStep([electron EXCEPT !.win[w].page =
                            IF ok THEN SpoutSceneResolved(@, task)
                            ELSE SpoutSceneRejected(@, task)])

InitElectron ==
    /\ WindowsIdle
    /\ codec = CodecFresh({})
    /\ sync = SyncIdle
    /\ capture = CaptureIdle
    /\ reactive = ReactiveIdle
    /\ driver = DriverIdle
    /\ \E available, handler \in BOOLEAN : \E scene \in Scenes :
            electron = ElectronStarted(available, handler, scene)

NextElectron ==
    \/ UserTogglesSpout
    \/ UserEntersName
    \/ InvokeSettles
    \/ MainWindowCloses
    \/ SpoutWindowLoads
    \/ SpoutWindowLoadFails
    \/ SpoutWindowDestroyed
    \/ Paints
    \/ SceneRequested
    \/ SceneRelayed
    \/ SecondaryRecvScene
    \/ SecondaryRendererReady
    \/ SecondaryModelSettles

SpecElectron == InitElectron /\ [][NextElectron]_vars

(***************************************************************************)
(* Claims about the primary window (specification Spec).                   *)
(***************************************************************************)
SceneIds == 1 .. Len(scenes)

\* a switch is in flight: an initVisualization is suspended in initRenderer
\* or in a variant's init
SwitchInFlight == \E task \in tasks : task.stage \in {"renderer", "scene"}

\* C1: whenever initScene calls the init() of a variant B while the scene of
\* another variant A is installed, A's cleanup() has been invoked (and has
\* returned) by then.
C1_CleanupBeforeInit ==
    (ev.began /\ ev.prev # NoScene /\ scenes[ev.prev].variant # ev.type)
        => scenes[ev.prev].cleanups >= 1

\* C2: a tick that invokes a variant's update() runs while no switch is in
\* flight, and an init() of that variant has resolved.
C2_NoUpdateDuringSwitch ==
    (ev.op = "tick" /\ ev.upd # NULL)
        => /\ ~SwitchInFlight
           /\ \E i \in SceneIds : scenes[i].variant = ev.upd /\ scenes[i].installed

\* C3: after a variant's init() rejected, the manager is Empty (no current
\* type, scene or cleanup) and the rejection reached the caller.
C3_EmptyAfterReject ==
    ev.op = "reject"
        => /\ currentSceneType = NULL
           /\ currentScene = NoScene
           /\ currentSceneCleanup = NULL
           /\ ev.err = "rejected"

\* a step in which a request naming the unregistered id settled: no call for
\* it is left suspended
BogusSettled ==
    /\ ev'.type = Bogus
    /\ ev'.op \in {"switch", "audio", "renderer"}
    /\ ~\E task \in tasks' : task.type = Bogus

\* C4: a request naming an unregistered scene id signals an error and
\* changes neither the registry, the scenes, the rendered scene nor the
\* animation loop.
C4_UnknownIdChangesNothing ==
    [][BogusSettled
          => /\ ev'.err # "none"
             /\ UNCHANGED << currentSceneType, currentScene, currentSceneCleanup,
                             skin, scenes, ppScene, loop >>]_vars

\* C5: whenever a tick runs with a current type, the installed scene, the
\* cleanup function and the rendered scene belong to that same variant.
C5_OneConsistentVariant ==
    (ev.op = "tick" /\ ev.upd # NULL)
        => /\ currentScene # NoScene
           /\ scenes[currentScene].variant = ev.upd
           /\ currentSceneCleanup = RegistryCleanup(ev.upd)
           /\ ppScene = currentScene

\* C6: every scene that was installed and has been replaced by the scene of
\* a different variant had its cleanup() called exactly once and was
\* disposed.
C6_CleanedOnceBeforeNext ==
    \A i \in SceneIds :
        ( /\ scenes[i].installed
          /\ currentScene # NoScene
          /\ currentScene # i
          /\ scenes[currentScene].variant # scenes[i].variant )
            => scenes[i].cleanups = 1 /\ scenes[i].disposed

\* C7: the manager's cleanup (the cleanup block of initScene), the skinning
\* cleanup and the cleanup of the visualisation handle are idempotent: a
\* second call in a row changes nothing, and on an Empty manager the first
\* call already changes nothing.
C7_CleanupIdempotent ==
    LET once == CleanupPrevious(St)
    IN  /\ CleanupPrevious(once) = once
        /\ CleanupSkinningScene(CleanupSkinningScene(St)) = CleanupSkinningScene(St)
        /\ AppCleanup(AppCleanup(St)) = AppCleanup(St)
        /\ (currentScene = NoScene => once = St)

\* C7 witness: the cleanup block of initScene has cleaned and disposed a
\* scene before, and now a skinning scene is installed on which a first
\* cleanup changes the state.
C7_Witness ==
    /\ \E i \in SceneIds : scenes[i].cleanups = 1 /\ scenes[i].disposed
    /\ currentScene # NoScene /\ currentSceneCleanup = "skinning"
    /\ CleanupPrevious(St) # St
    /\ CleanupSkinningScene(St) # St


(***************************************************************************)
(* Claims about the secondary window (specification SpecSpout).            *)
(***************************************************************************)

\* C8: once every init the secondary started has completed, none having
\* failed, the active variant is the one the last scene message named.
C8_LastSceneChangeWins ==
    (spout.tasks = {} /\ ~spout.failed /\ lastScene \in Scenes)
        => spout.currentScene = lastScene

\* the settings messages the primary window sends: every key is present
FullSnapshots == SnapshotsOver(SnapKeys)

\* every suspended init completes successfully, oldest first
RECURSIVE SpoutSettle(_)
SpoutSettle(s) ==
    IF s.tasks = {}
    THEN s
    ELSE LET task == CHOOSE x \in s.tasks : \A y \in s.tasks : x.id <= y.id
         IN  SpoutSettle(IF task.stage = "renderer"
                         THEN SpoutRendererReady(s, task)
                         ELSE SpoutSceneResolved(s, task))

\* the state after the next tick, if the loop runs
AtNextTick(s) == IF s.loop THEN SpoutAnimate(s) ELSE s

\* C9: applying a settings message and a scene message in either order
\* leaves the secondary with the same settings, the same active variant and
\* the same suspended inits, and from the next tick on (now and once the
\* inits have completed) in the same state, bloom and controls included.
C9_SettingsSceneCommute ==
    \A t \in RequestIds, newSettings \in FullSnapshots :
        LET a == SpoutSwitchScene(SpoutUpdateSettings(spout, newSettings), t)
            b == SpoutUpdateSettings(SpoutSwitchScene(spout, t), newSettings)
        IN  /\ a.settings = b.settings
            /\ a.currentScene = b.currentScene
            /\ a.tasks = b.tasks
            /\ AtNextTick(a) = AtNextTick(b)
            /\ AtNextTick(SpoutSettle(a)) = AtNextTick(SpoutSettle(b))

\* C9 witness: a settings message and a scene message were delivered within
\* one frame, and for some pair of messages the two orders differ in the
\* bloom pass until the next tick.
C9_Witness ==
    /\ {"settings", "scene"} \subseteq frame
    /\ spout.loop
    /\ \E t \in Scenes, newSettings \in FullSnapshots :
          SpoutSwitchScene(SpoutUpdateSettings(spout, newSettings), t).bloomPass
            # SpoutUpdateSettings(SpoutSwitchScene(spout, t), newSettings).bloomPass

\* C10: delivering a settings snapshot sets every key the snapshot shares
\* with the local store to the snapshot's value, leaves every other value
\* and the set of keys unchanged, and changes nothing but the settings; so
\* for updateSettings of the secondary and for updateSettingsFromMain.
C10_SnapshotSetsSharedKeys ==
    \A newSettings \in Snapshots :
        LET after == SpoutUpdateSettings(spout, newSettings)
            local == UpdateSettingsFromMain(spout.settings, newSettings)
        IN  /\ DOMAIN after.settings = DOMAIN spout.settings
            /\ \A key \in DOMAIN spout.settings :
                  after.settings[key] = IF key \in DOMAIN newSettings
                                        THEN newSettings[key]
                                        ELSE spout.settings[key]
            /\ after = [spout EXCEPT !.settings = after.settings]
            /\ local = after.settings

\* C10 witness: the snapshot {bassSensitivity: 2.0} has been delivered to a
\* secondary with the default settings.
C10_Witness ==
    /\ "settings" \in frame
    /\ spout.settings["bassSensitivity"] = 200
    /\ \A key \in SettingKeys \ {"bassSensitivity"} :
          spout.settings[key] = DefaultSettings[key]

(***************************************************************************)
(* Claims about the settings store (specification SpecSettings).           *)
(***************************************************************************)

\* C11: applying a snapshot with keys the local store does not have adds no
\* key to the store and changes no value of a key that is not in the
\* snapshot; so for deserializeSettings (the call just made) and for
\* updateSettingsFromMain (on the values of the store, for every snapshot).
C11_UnknownKeysIgnored ==
    /\ codec.op = "deserialize"
          => /\ DOMAIN codec.settings = DOMAIN codec.before
             /\ \A key \in DOMAIN codec.before \ DOMAIN codec.values :
                   codec.settings[key] = codec.before[key]
    /\ \A values \in ValueObjects :
          LET local == SerializeSettings(codec.settings)
              after == UpdateSettingsFromMain(local, values)
          IN  /\ DOMAIN after = DOMAIN local
              /\ \A key \in DOMAIN local \ DOMAIN values : after[key] = local[key]

\* C11 witness: a snapshot with the unknown key and some, not all, keys of
\* the store has been applied and changed a value.
C11_Witness ==
    /\ codec.op = "deserialize"
    /\ UnknownKey \in DOMAIN codec.values
    /\ DOMAIN codec.values \cap StoreKeys # {}
    /\ StoreKeys \ DOMAIN codec.values # {}
    /\ codec.settings # codec.before

\* C12: serialize after deserialize(settings, snapshot) has the snapshot's
\* value for every key present in both and the store's value from before
\* the call for every other key; checked on the serialize that follows a
\* deserialize, and on the composition for every snapshot.
C12_RoundTrip ==
    LET Law(before, values, out) ==
            /\ DOMAIN out = DOMAIN before
            /\ \A key \in DOMAIN out :
                  out[key] = IF key \in DOMAIN values
                             THEN values[key]
                             ELSE before[key].value
    IN  /\ (codec.op = "serialize" /\ codec.values # << >>)
              => Law(codec.before, codec.values, codec.serialized)
        /\ \A values \in ValueObjects :
              Law(codec.settings, values,
                  SerializeSettings(DeserializeSettings(codec.settings, values)))

\* C12 witness: a snapshot that changed the store, the unknown key among its
\* keys, was applied, and the store was serialized afterwards.
C12_Witness ==
    /\ codec.op = "serialize"
    /\ codec.settings # codec.before
    /\ UnknownKey \in DOMAIN codec.values
    /\ \E key \in StoreKeys : codec.serialized[key] = 0

(***************************************************************************)
(* Claims about the channel (specification SpecSync).                      *)
(***************************************************************************)
\* C13: while the main process has no output window (spoutWindow is null),
\* a push of settings, audio, scene or time raises no error and changes
\* nothing in either process: the message is consumed and that is all.  It
\* is not kept for later: what the page of an output window has received
\* was forwarded to that very window, and with no window nothing is held.
C13_NoWindowNoEffect ==
    /\ [](/\ sync.err = "none"
          /\ sync.spoutWindow = NULL => sync.inbox = {}
          /\ \A m \in sync.inbox : m[2] = sync.windows)
    /\ [][(/\ Len(sync'.wire) < Len(sync.wire)
           /\ Head(sync.wire).type \in SyncTypes
           /\ sync.spoutWindow = NULL)
            => /\ sync'.wire = Tail(sync.wire)
               /\ ProgramState(sync') = ProgramState(sync)]_vars

\* a message was dropped for want of a window, a later window has loaded and
\* has received other messages, and not that one
C13_Witness ==
    /\ sync.dropped \in SyncTypes
    /\ sync.windows = MaxWindows
    /\ sync.spoutWindow = "loaded"
    /\ sync.inbox # {}
    /\ << sync.dropped, sync.windows >> \notin sync.inbox

\* C14: when an enable of the output succeeds, the handler that receives the
\* result pushes at once, as the first thing it sends, a settings snapshot
\* that holds the current value of every key of the primary window's store.
C14_FullSnapshotOnEnable ==
    [][(sync.reply = "success" /\ sync'.reply = "none")
        => /\ Len(sync'.wire) = Len(sync.wire) + 1
           /\ LET msg == sync'.wire[Len(sync.wire) + 1]
              IN  /\ msg.type = "sync:settings"
                  /\ \A key \in DOMAIN sync'.settings :
                        /\ key \in DOMAIN msg.data
                        /\ msg.data[key] = sync'.settings[key]]_vars

\* C15: in a tick of the primary window during which an output window
\* exists, the audio features of that tick are pushed exactly once; in a
\* tick during which none exists, nothing is pushed.  (The secondary window
\* has no push at all: only the primary window sends on the pipe.)
C15_AudioPushedIffReceiver ==
    sync.tick.ran =>
        sync.tick.pushed = (IF sync.tick.receiver THEN 1 ELSE 0)

(***************************************************************************)
(* Claims about the analyser (specification SpecCapture).                  *)
(***************************************************************************)
\* analyzeAudio has just run on a connected analyser
Analyzed == capture.op = "analyze" /\ capture.analyser

\* x is a number between 0 and 1
InUnit(x) == x.den > 0 /\ 0 <= x.num /\ x.num <= x.den

\* C16: for every spectrum of at least 13 bins and every non-negative
\* sensitivity, bass, mid and high each lie in [0,1] and overall is
\* (bass + mid + high) / 3.
C16_LevelsInUnitInterval ==
    (Analyzed /\ Len(capture.spectrum) >= 13) =>
        LET r == capture.audioData
        IN  /\ InUnit(r.bass) /\ InUnit(r.mid) /\ InUnit(r.high)
            /\ 3 * r.overall.num * r.bass.den * r.mid.den * r.high.den
                = r.overall.den
                    * (r.bass.num * r.mid.den * r.high.den
                        + r.mid.num * r.bass.den * r.high.den
                        + r.high.num * r.bass.den * r.mid.den)

\* a loud spectrum at a sensitivity above one: bass is clamped, high is not,
\* and overall lies strictly between
C16_Witness ==
    /\ Analyzed
    /\ Len(capture.spectrum) >= 13
    /\ capture.audioData.bass = One
    /\ capture.audioData.high \notin {Zero, One}
    /\ capture.audioData.overall \notin {Zero, One, capture.audioData.high}

\* every bin of the spectrum is zero
AllZero(data) == \A i \in 1 .. Len(data) : data[i] = 0

C18_NoSourceZeroFeatures ==
    (capture.op = "analyze" /\ ~capture.analyser) =>
        /\ capture.audioData = Silent
        /\ capture.uniforms = Silent

RECURSIVE SumOver(_, _)
SumOver(data, I) ==
    IF I = {} THEN 0
    ELSE LET i == CHOOSE j \in I : TRUE
         IN  data[i + 1] + SumOver(data, I \ {i})

\* min(mean of the bins at I / 255 * sensitivity, 1)
BandLevel(data, I, sensitivity) ==
    MathMin1(Times(Divide(SumOver(data, I), 255 * Cardinality(I)), sensitivity))

FrameSteps ==
    SelectSeq(driver.steps, LAMBDA c : c \notin {"updateControls", "onRender"})

\* a frame has run with a scene type installed; in the primary window the
\* audio callback is set, as main.js always sets it
FullFrame ==
    /\ driver.steps # << >>
    /\ driver.sceneType # NULL
    /\ "update" \in {driver.steps[i] : i \in DOMAIN driver.steps}
    /\ driver.window = "primary" => driver.onAudioUpdate

\* C22: a tick does, in this order and each once: compute delta, refresh
\* the audio features, push them, recompute the bloom parameters, advance
\* the orbit controls, call the active variant's update, render (the
\* secondary window has no audio to refresh or push).  The controls are
\* advanced before the update, and rendering is last.
C22_FrameOrder ==
    FullFrame =>
        FrameSteps =
            IF driver.window = "primary"
            THEN << "getDelta", "analyzeAudio", "onAudioUpdate", "updateBloom",
                    "controls.update", "update", "postProcessing.render" >>
            ELSE << "getDelta", "updateBloom", "controls.update", "update",
                    "postProcessing.render" >>

\* C23: the audio features passed to the active variant's update are the
\* ones analyzeAudio returned earlier in the same tick.
C23_UpdateGetsFreshFeatures ==
    (FullFrame /\ driver.window = "primary") =>
        /\ driver.audioData # << >>
        /\ driver.passed = driver.audioData

(***************************************************************************)
(* Claims about stopping the render loop (specification Spec).             *)
(***************************************************************************)
\* a step of switchSceneWithGUI that stopped the loop and returned or
\* suspended without reaching setAnimationLoop(animate)
SwitchStopped ==
    /\ nreq' = nreq + 1
    /\ ev'.op = "switch"
    /\ ev'.err # "same"
    /\ (ev'.err # "none" \/ tasks' # tasks)

\* a step that is a tick of the animation loop
TickStep == ev'.op = "tick" /\ ev' # ev

\* C24: stopping the render loop is synchronous: a switch that stopped the
\* loop leaves it stopped (also while another switch is in flight), a tick
\* only runs while the loop is started, and a stopped loop is started only by
\* an initVisualization that reached its setAnimationLoop(animate) call.
C24_StopIsSynchronous ==
    [][/\ SwitchStopped => ~loop'
       /\ TickStep => (loop /\ loop')
       /\ (~loop /\ loop') => (ev'.op # "tick" /\ ev'.err = "none"
                                 /\ app' # NoScene /\ ppScene' = currentScene')
      ]_vars

\* a switch stopped the loop while an earlier switch is still suspended
C24_Witness ==
    /\ ev.op = "switch"
    /\ ev.err = "none"
    /\ ~loop
    /\ rendererObj
    /\ Cardinality({task \in tasks : task.kind = "switch"}) >= 2

(***************************************************************************)
(* Claims about requests after a failed init (specification Spec).         *)
(***************************************************************************)
\* the user's next request, made right after a variant's init rejected,
\* names that variant again: the selector picks it, or start is pressed
\* again after the start for it failed
RetryStep ==
    /\ ev.op = "reject"
    /\ nreq' = nreq + 1
    /\ \/ ev'.op = "switch" /\ ev'.type = ev.type
       \/ ev'.op = "start" /\ ~selector /\ urlScene = ev.type

\* the user's next request after a rejection names another variant
OtherStep ==
    /\ ev.op = "reject"
    /\ nreq' = nreq + 1
    /\ ev'.op = "switch"
    /\ ev'.type \in Scenes \ {ev.type}

\* the request named by ev' was ignored by one of the early returns
Ignored == ev'.err \in {"same", "started", "busy"}

\* C25: after a variant's init failed, a request for the same variant
\* begins a new init attempt instead of being ignored, and a request for a
\* different variant is still accepted.
C25_RetryAfterFailure ==
    [][(RetryStep \/ OtherStep) => ~Ignored]_vars

(***************************************************************************)
(* Claims about startVisualizer (specification Spec).                      *)
(***************************************************************************)
\* the executions of startVisualizer that are suspended at an await
StartsInProgress == {task \in tasks : task.kind = "start"}

\* a call of startVisualizer that found another one in progress
BusyCall == nreq' = nreq + 1 /\ ev'.op = "start" /\ ev'.err = "busy"

\* C29: at most one execution of startVisualizer is in progress; a call made
\* meanwhile returns without initialising audio or a scene; isStarting is
\* true exactly while an execution is in progress, so it is false again once
\* that execution ended, successfully or not.
C29_SingleStartInProgress ==
    /\ [](/\ Cardinality(StartsInProgress) <= 1
          /\ isStarting <=> StartsInProgress # {})
    /\ [][BusyCall => UNCHANGED << tasks, audioInitialized, isStarting,
                                   mainSceneType, app, selector, appInit,
                                   rendererObj, rendererInit, loop, ppScene,
                                   currentSceneType, currentScene,
                                   currentSceneCleanup, skin, scenes >>]_vars

\* start was pressed again while the first execution was suspended
C29_Witness ==
    /\ ev.op = "start"
    /\ ev.err = "busy"
    /\ isStarting
    /\ Cardinality(StartsInProgress) = 1

(***************************************************************************)
(* Claims about the main process (specification SpecElectron).             *)
(***************************************************************************)
\* Spout output is enabled: the flag is set and a sender exists
OutputEnabled == electron.spoutEnabled /\ electron.spoutSender.by # 0

\* C26: whenever Spout output is enabled, the name of the sender is the name
\* the user entered last ('Music Visualizer' if none was entered), whether
\* it was entered before or after enabling.
C26_SenderNameIsEntered ==
    OutputEnabled => electron.spoutSender.name = electron.gui.name

\* the output window the main process holds
OutputWindow == electron.win[electron.spoutWindow]

\* an enable succeeded, no disable or close followed, and everything it
\* triggered has been delivered and handled: no enable is suspended, no
\* message is on its way, and every init of the output page has completed
EnableSettledDown ==
    /\ electron.last = "succeeded"
    /\ electron.mainWindow
    /\ electron.calls = {}
    /\ electron.requests = 0
    /\ electron.wire = << >>
    /\ Usable(electron)
    /\ OutputWindow.load = "loaded"
    /\ ~OutputWindow.closed
    /\ OutputWindow.inbox = << >>
    /\ OutputWindow.page.tasks = {}
    /\ ~OutputWindow.page.failed

\* C27: after spout:enable succeeded and everything it triggered has been
\* handled, the active variant of the secondary window is the current
\* variant of the primary window.
C27_SecondaryShowsPrimaryVariant ==
    EnableSettledDown => OutputWindow.page.currentScene = electron.scene

\* the paint handler has just forwarded a frame to the sender
FrameForwarded == electron.ev.op = "paint" /\ electron.ev.forwarded

\* C28: a painted frame is forwarded only while spoutEnabled is true and a
\* sender exists, and after spout:disable was handled none is forwarded
\* until a later spout:enable has returned success.
C28_ForwardOnlyWhileEnabled ==
    FrameForwarded => (OutputEnabled /\ electron.last # "disabled")

\* C30: a spout:enable that returns success: false has not switched
\* spoutEnabled on and leaves no sender it created; spoutEnabled is true only
\* after an enable that returned success: true (and no disable since).
C30_FailedEnableLeavesNothing ==
    /\ [](electron.spoutEnabled => electron.last = "succeeded")
    /\ [][(electron'.ev.op = "enable" /\ ~electron'.ev.success
              /\ electron'.ev # electron.ev)
             => /\ electron'.spoutEnabled => electron.spoutEnabled
                /\ electron'.spoutSender.by # electron'.ev.call]_vars
============================================================================
